---------------------------- MODULE Spec2Model ----------------------------
(***************************************************************************)
(* Model of the satellite simulation (toffeeframe/satellite-finale):       *)
(* PhysicsEngine (src/src/physics-engine.ts), SatelliteSimulation          *)
(* (src/src/simulation.ts), ControlsManager (src/unnamed/part_001) and the *)
(* UI handlers of src/src/main.ts.                                         *)
(*                                                                         *)
(* The program computes in IEEE doubles; the model computes in integer     *)
(* fixed point, every division truncating toward zero:                     *)
(*   length            metres                                              *)
(*   velocity          mm/s                                                *)
(*   acceleration      mm/s^2                                              *)
(*   time              milliseconds                                        *)
(*   mass              kg                                                  *)
(*   density           1e-9 kg/m^3                                         *)
(*   drag coefficient  tenths                                              *)
(* All motion is in the XY plane: every position and velocity the program  *)
(* creates has z = 0 and gravity and drag keep it there.                   *)
(***************************************************************************)
EXTENDS Integers, Sequences, FiniteSets, TLC

(***************************************************************************)
(* Program constants.                                                      *)
(***************************************************************************)
EARTH_RADIUS == 6371000
\* EARTH_MASS = 5.972e24 kg, held as 5972e21
EARTH_MASS == 5972
\* G = 6.6743e-11, held as 66743e-15
G == 66743
\* G * EARTH_MASS in units of 1e6 m^3/s^2
GM == G * EARTH_MASS

maxSafeTimeScale == 20
maxSatelliteTimeScale == 10
\* maxStep = 0.01 s
maxStep == 10
maxSubsteps == 50
crashThreshold == 80000
\* altitude below which air resistance is auto-disabled
airCutoffAltitude == 100000
\* target-height tolerance and per-substep cap
heightTolerance == 100
maxAdjustment == 500

(***************************************************************************)
(* Integer helpers.                                                        *)
(***************************************************************************)
Abs(n) == IF n < 0 THEN -n ELSE n
Min(a, b) == IF a <= b THEN a ELSE b
Max(a, b) == IF a >= b THEN a ELSE b
Sign(n) == IF n > 0 THEN 1 ELSE IF n < 0 THEN -1 ELSE 0
\* division truncating toward zero (d > 0)
TDiv(n, d) == IF n >= 0 THEN n \div d ELSE -((-n) \div d)

\* n^2 for 0 <= n < 2^24 as two limbs base 2^24 (the square exceeds 32 bits)
Limb == 2^12
Limb2 == Limb * Limb
SqLoRaw(n) == (((2 * (n \div Limb) * (n % Limb)) % Limb) * Limb) + ((n % Limb) * (n % Limb))
SqHi(n) == ((n \div Limb) * (n \div Limb)) + ((2 * (n \div Limb) * (n % Limb)) \div Limb)
             + (SqLoRaw(n) \div Limb2)
SqLo(n) == SqLoRaw(n) % Limb2

\* the two-limb number <<rh, rl>> is at most <<hi, 0>> + lo
LimbsLe(rh, rl, hi, lo) ==
  \/ rh < hi + (lo \div Limb2)
  \/ rh = hi + (lo \div Limb2) /\ rl <= (lo % Limb2)

\* r^2 <= x^2 + y^2 for r, x, y >= 0
SumSqLe(r, x, y) == LimbsLe(SqHi(r), SqLo(r), SqHi(x) + SqHi(y), SqLo(x) + SqLo(y))

RECURSIVE LengthSearch(_, _, _, _)
LengthSearch(lo, hi, x, y) ==
  IF hi - lo <= 1 THEN lo
  ELSE IF SumSqLe((lo + hi) \div 2, x, y) THEN LengthSearch((lo + hi) \div 2, hi, x, y)
  ELSE LengthSearch(lo, (lo + hi) \div 2, x, y)

\* the root is a + k or a + k - 1 when k = b^2 \div 2a is small
LengthNear(a, b, k) == IF k * ((2 * a) + k) <= b * b THEN a + k ELSE a + k - 1

\* floor(sqrt(a^2 + b^2)) for a >= b >= 0: near a when b^2 fits 32 bits and
\* b^2 / 2a is small, searched for otherwise
LengthOrdered(a, b) ==
  IF b = 0 THEN a
  ELSE IF b <= 46340 /\ a >= 2000000 /\ (b * b) \div (2 * a) < 2000
    THEN LengthNear(a, b, (b * b) \div (2 * a))
  ELSE LengthSearch(a, a + (b \div 2) + 1, a, b)

\* THREE.Vector3.length() of (x, y, 0): floor(sqrt(x^2 + y^2))
Length(x, y) == LengthOrdered(Max(Abs(x), Abs(y)), Min(Abs(x), Abs(y)))

RECURSIVE SqrtSearch(_, _, _)
SqrtSearch(lo, hi, n) ==
  IF hi - lo <= 1 THEN lo
  ELSE LET mid == (lo + hi) \div 2
       IN  IF mid * mid <= n THEN SqrtSearch(mid, hi, n) ELSE SqrtSearch(lo, mid, n)

\* Math.sqrt: floor(sqrt(n)), 0 <= n < 2^31
Sqrt(n) == SqrtSearch(0, 46341, n)

\* a * c / len, the component c of a vector of length len scaled to
\* magnitude a (normalize().multiplyScalar(a)); a < 20000
ScaleTo(a, c, len) ==
  LET k == (Max(Abs(c), len) \div 100000) + 1
  IN  IF len \div k = 0 THEN 0 ELSE TDiv(a * TDiv(c, k), len \div k)


(***************************************************************************)
(* Math.exp and Math.pow in fixed point (1e6 = 1.0).                       *)
(***************************************************************************)
\* c * e / 1e6 without leaving 32 bits (c < 2^31, e <= 1e6)
MulE6(c, e) ==
  ((c \div 1000) * (e \div 1000))
    + ((((c \div 1000) * (e % 1000)) + ((c % 1000) * (e \div 1000))) \div 1000)
    + (((c % 1000) * (e % 1000)) \div 1000000)

\* 1e6 * exp(-k), k = 0, 1, 2, ...
ExpInt(k) ==
  IF k > 13 THEN 0
  ELSE <<1000000, 367879, 135335, 49787, 18315, 6737, 2478, 911, 335, 123, 45, 16, 6, 2>>[k + 1]

\* 1e6 * exp(-j/10), j = 0..9
ExpTenth(j) ==
  <<1000000, 904837, 818730, 740818, 670320, 606530, 548811, 496585, 449328, 406569>>[j + 1]

\* 1e6 * exp(-r/1000), r = 0..99 (Taylor series)
ExpMilli(r) == 1000000 - (1000 * r) + ((r * r) \div 2) - ((r * r * r) \div 6000)

\* 1e6 * Math.exp(-n/d), n >= 0, 0 < d <= 2000000
ExpNeg(n, d) ==
  LET t == ((n % d) * 1000) \div d
  IN  MulE6(MulE6(ExpInt(n \div d), ExpTenth(t \div 100)), ExpMilli(t % 100))

\* 1e6 * -ln(1 - u/1e6), 0 <= u <= 300000 (series u + u^2/2 + ... + u^8/8)
RECURSIVE LnSeries(_, _, _)
LnSeries(u, p, n) ==
  IF n > 8 \/ p = 0 THEN 0 ELSE (p \div n) + LnSeries(u, MulE6(p, u), n + 1)

\* 1e6 * Math.pow(x/1e6, 4.256), 700000 <= x <= 1000000
Pow4256(x) == ExpNeg((LnSeries(1000000 - x, 1000000 - x, 1) * 4256) \div 1000, 1000000)

(***************************************************************************)
(* The atmospheric density table of updatePhysics (the same table is       *)
(* written out twice in the source), in 1e-9 kg/m^3.                       *)
(***************************************************************************)
\* the exponential layers: <<density at the base of the layer, n, d>> for
\* the factor exp(-n / d)
DensityLayer(h) ==
  IF h < 20000 THEN <<363900000, (h - 11000) * 10, 63416>>
  ELSE IF h < 32000 THEN <<88000000, h - 20000, 7360>>
  ELSE IF h < 47000 THEN <<13200000, h - 32000, 8000>>
  ELSE IF h < 51000 THEN <<1430000, h - 47000, 7500>>
  ELSE IF h < 71000 THEN <<86000, h - 51000, 10000>>
  ELSE IF h < 100000 THEN <<3200, h - 71000, 15000>>
  ELSE IF h < 200000 THEN <<100, h - 100000, 25000>>
  ELSE IF h < 500000 THEN <<10, h - 200000, 100000>>
  ELSE <<1, h - 500000, 500000>>

Density(h) ==
  IF h < 11000
    THEN MulE6(1225000000, Pow4256(1000000 - (((h * 65000) \div 28815) * 10)))
    ELSE MulE6(DensityLayer(h)[1], ExpNeg(DensityLayer(h)[2], DensityLayer(h)[3]))

(***************************************************************************)
(* Orbital kinematics.                                                     *)
(***************************************************************************)
\* G * EARTH_MASS / distance^2 in mm/s^2 (force divided by the mass)
GravityAccel(distance) ==
  GM \div (((distance \div 1000) * (distance \div 1000)) \div 1000)

\* Math.sqrt(2 * G * EARTH_MASS / r) in mm/s
EscapeVelocity(r) == 1000 * Sqrt(((2 * GM) \div (r \div 1000)) * 1000)

\* Math.sqrt(G * EARTH_MASS / r) in mm/s
CircularVelocity(r) == 1000 * Sqrt((GM \div (r \div 1000)) * 1000)

\* 0.5 * rho * v^2 * Cd * A / mass in mm/s^2 (v in mm/s, rho in 1e-9 kg/m^3)
DragAccel(rho, v, Cd, A, mass) ==
  (((rho * (((v \div 1000) * (v \div 1000)) \div 1000)) \div 1000) * (Cd * A * 5))
    \div (mass * 100)

(***************************************************************************)
(* The integrator: one satellite, one tick.  A satellite state s is a      *)
(* record with the fields of PhysicsEngine.satellites[i]:                  *)
(*   id (the model's name for the object), px, py, vx, vy, mass,           *)
(*   dragCoefficient, area, initialDensity, densityScaleHeight,            *)
(*   airEnabled, timeScale, crashed,                                       *)
(*   targetHeight: <<>> when undefined, <<h>> when set,                    *)
(*   nan: the position and the velocity are not numbers (NaN); px, py, vx  *)
(*        and vy are then held at 0 and never read.                        *)
(* A mass of 0 makes totalForce / mass 0/0 = NaN, and every value computed *)
(* from a NaN is a NaN; every comparison with a NaN is false.              *)
(* (the field `height` the live update writes is never read and is left    *)
(* out.)                                                                   *)
(***************************************************************************)
\* dt of updatePhysics: the per-satellite scaled deltaTime with the two
\* safety limits as the code applies them (the second assignment replaces
\* the first)
EffectiveDt(deltaTime, simTimeScale, satTimeScale) ==
  IF satTimeScale > maxSatelliteTimeScale
    THEN deltaTime * simTimeScale * maxSatelliteTimeScale
  ELSE IF simTimeScale > maxSafeTimeScale
    THEN deltaTime * maxSafeTimeScale * satTimeScale
  ELSE deltaTime * simTimeScale * satTimeScale

\* faulty variants of the auto-disable rules: one without the escape rule,
\* one that switches air resistance back on where neither rule applies
AutoDisableByAltitudeOnly(s) ==
  IF Length(s.px, s.py) - EARTH_RADIUS < airCutoffAltitude
    THEN [s EXCEPT !.airEnabled = FALSE]
    ELSE s

AutoDisableRestoring(s) ==
  [s EXCEPT !.airEnabled =
     ~(\/ Length(s.vx, s.vy) * 100 > EscapeVelocity(Length(s.px, s.py)) * 95
       \/ Length(s.px, s.py) - EARTH_RADIUS < airCutoffAltitude)]

\* the two auto-disable rules evaluated before the substep loop
AutoDisableAir(s) ==
  LET velocityMagnitude == Length(s.vx, s.vy)
      distance == Length(s.px, s.py)
      escapeVelocity == EscapeVelocity(distance)
      altitude == distance - EARTH_RADIUS
  IN  IF s.nan THEN s
      ELSE IF velocityMagnitude * 100 > escapeVelocity * 95 \/ altitude < airCutoffAltitude
        THEN [s EXCEPT !.airEnabled = FALSE]
        ELSE s

\* if (sat.airEnabled) ... if (v > 1): a drag force is computed and applied
DragApplies(s, v) == s.airEnabled /\ v > 1000

\* dragMagnitude / mass at `distance` from the centre for speed v
DragOf(s, distance, v) ==
  IF DragApplies(s, v)
    THEN DragAccel(Density(Max(0, distance - EARTH_RADIUS)), v, s.dragCoefficient,
                   s.area, s.mass)
    ELSE 0

\* totalForce / mass: gravity g toward the centre from (px, py), drag
\* against the velocity (ux, uy) of length v
SumForces(g, px, py, distance, drag, ux, uy, v) ==
  << (-ScaleTo(g, px, distance)) + (IF drag = 0 THEN 0 ELSE -ScaleTo(drag, ux, v)),
     (-ScaleTo(g, py, distance)) + (IF drag = 0 THEN 0 ELSE -ScaleTo(drag, uy, v)) >>

\* (gravityForce + dragForce) / mass at position (px, py), the drag taken
\* from velocity (ux, uy): <<ax, ay>>
Acceleration(s, px, py, distance, ux, uy) ==
  SumForces(GravityAccel(distance), px, py, distance,
            DragOf(s, distance, Length(ux, uy)), ux, uy, Length(ux, uy))

\* the radial move of the height adjustment
AdjustBy(s, distance, adjustment) ==
  [s EXCEPT !.px = @ + ScaleTo(adjustment, s.px, distance),
            !.py = @ + ScaleTo(adjustment, s.py, distance)]

\* faulty variants of the height adjustment: one with twice the cap, one
\* that always moves by maxAdjustment
AdjustTowardByDoubleCap(s, distance, heightDiff) ==
  IF Abs(heightDiff) > heightTolerance
    THEN AdjustBy(s, distance,
                  Sign(heightDiff) * Min(Abs(heightDiff), 2 * maxAdjustment))
    ELSE [s EXCEPT !.targetHeight = <<>>]

AdjustTowardByFullStep(s, distance, heightDiff) ==
  IF Abs(heightDiff) > heightTolerance
    THEN AdjustBy(s, distance, Sign(heightDiff) * maxAdjustment)
    ELSE [s EXCEPT !.targetHeight = <<>>]

\* the gradual height adjustment at the end of a substep; distance is the
\* length of the position, heightDiff the target less the current height
AdjustToward(s, distance, heightDiff) ==
  IF Abs(heightDiff) > heightTolerance
    THEN AdjustBy(s, distance, Sign(heightDiff) * Min(Abs(heightDiff), maxAdjustment))
    ELSE [s EXCEPT !.targetHeight = <<>>]

AdjustHeight(s, distance) ==
  IF s.targetHeight = <<>> THEN s
  ELSE AdjustToward(s, distance, s.targetHeight[1] - (distance - EARTH_RADIUS))

\* the altitude of a log entry when no altitude was computed
NoAltitude == 2 * (10^9)

\* a faulty variant of the crash test: the threshold of the surface
BelowSurface(altitude) == altitude <= 0

\* altitude <= crashThreshold, the test of both crash checks
BelowCrashThreshold(altitude) == altitude <= crashThreshold

\* One pass of the while loop body with time step `step` (ms), in the
\* order of the code from its end to its start.  The result is
\*   sat    the satellite after the pass
\*   crash  "start" (first check), "moved" (check after the position
\*          update) or "no"
\*   seen   the lowest altitude the two checks looked at
\*   ended  the altitude the pass ends at
\*   dragged  a drag force was applied in the pass
\*   forces   the lowest altitude gravity was computed at
\*   density  the lowest altitude the density table was evaluated at (it is
\*            evaluated with the gravity if airEnabled, whatever the speed)
\*   lost   gravity was computed at a position that is NaN
\*   nudge  <<>>, or one record of what the height adjustment did if
\*          targetHeight was set when the pass reached it: the error
\*          (target less current height), the position before (from, at
\*          `distance` from the centre) and after (to), whether the velocity
\*          is what it was and whether targetHeight was cleared

\* the end of a pass without a crash
EndOfPass(adjusted, seen, newDistance, hadTarget) ==
  [sat |-> adjusted, crash |-> "no", seen |-> seen,
   ended |-> IF hadTarget THEN Length(adjusted.px, adjusted.py) - EARTH_RADIUS
             ELSE newDistance - EARTH_RADIUS,
   dragged |-> FALSE, nudge |-> <<>>,
   forces |-> seen, density |-> IF adjusted.airEnabled THEN seen ELSE NoAltitude,
   lost |-> FALSE]

\* the pass `one` with a drag force applied if `applied`
DraggedBy(one, applied) == [one EXCEPT !.dragged = @ \/ applied]

\* a pass over a satellite whose position is or becomes NaN: both crash
\* checks are false, position and velocity end as NaN and the height
\* adjustment, its test being false, clears targetHeight
NotANumber(s, seen, applied) ==
  [sat |-> [s EXCEPT !.nan = TRUE, !.px = 0, !.py = 0, !.vx = 0, !.vy = 0,
                     !.targetHeight = <<>>],
   crash |-> "no", seen |-> seen, ended |-> NoAltitude, dragged |-> applied,
   nudge |-> <<>>,
   forces |-> seen, density |-> IF s.airEnabled THEN seen ELSE NoAltitude,
   lost |-> TRUE]

\* the pass `one` with the record of the height adjustment that took the
\* satellite v, at newDistance from the centre, to one.sat
Nudge(one, v, newDistance) ==
  [one EXCEPT !.nudge =
     IF v.targetHeight = <<>> THEN <<>>
     ELSE <<[error |-> v.targetHeight[1] - (newDistance - EARTH_RADIUS),
             distance |-> newDistance,
             from |-> <<v.px, v.py>>,
             to |-> <<one.sat.px, one.sat.py>>,
             velocityKept |-> (one.sat.vx = v.vx /\ one.sat.vy = v.vy),
             cleared |-> (one.sat.targetHeight = <<>>)]>>]

\* the height adjustment of the satellite v, whose velocity is updated
AdjustAfterVelocity(v, seen, newDistance) ==
  Nudge(EndOfPass(AdjustHeight(v, newDistance), seen, newDistance, v.targetHeight # <<>>),
        v, newDistance)

\* the velocity update with the new acceleration na, then the height
\* adjustment
UpdateVelocity(m, step, seen, newDistance, na) ==
  AdjustAfterVelocity([m EXCEPT !.vx = @ + TDiv(na[1] * step, 1000),
                                !.vy = @ + TDiv(na[2] * step, 1000)],
                      seen, newDistance)

\* the crash check after the position update; m is the satellite at its new
\* position, (hx, hy) is velocityHalf
CheckAfterMove(m, step, altitude, hx, hy, newDistance) ==
  IF BelowCrashThreshold(newDistance - EARTH_RADIUS)
    THEN [sat |-> m, crash |-> "moved",
          seen |-> Min(altitude, newDistance - EARTH_RADIUS),
          ended |-> newDistance - EARTH_RADIUS, dragged |-> FALSE, nudge |-> <<>>,
          forces |-> altitude,
          density |-> IF m.airEnabled THEN altitude ELSE NoAltitude, lost |-> FALSE]
    ELSE DraggedBy(UpdateVelocity(m, step, Min(altitude, newDistance - EARTH_RADIUS),
                                  newDistance,
                                  Acceleration(m, m.px, m.py, newDistance, hx, hy)),
                   DragApplies(m, Length(hx, hy)))

\* sat.position.add(velocityHalf * step) and the new distance
MovePosition(m, step, altitude, hx, hy) ==
  CheckAfterMove(m, step, altitude, hx, hy, Length(m.px, m.py))

\* velocityHalf = velocity + acceleration * step / 2
HalfVelocity(s, step, altitude, hx, hy) ==
  MovePosition([s EXCEPT !.px = @ + TDiv(hx * step, 1000000),
                         !.py = @ + TDiv(hy * step, 1000000)],
               step, altitude, hx, hy)

\* the forces at the start of the pass
Accelerate(s, step, altitude, a) ==
  HalfVelocity(s, step, altitude, s.vx + TDiv(a[1] * step, 2000),
               s.vy + TDiv(a[2] * step, 2000))

\* the crash check at the start of the pass
CheckAtStart(s, step, distance) ==
  IF BelowCrashThreshold(distance - EARTH_RADIUS)
    THEN [sat |-> s, crash |-> "start", seen |-> distance - EARTH_RADIUS,
          ended |-> distance - EARTH_RADIUS, dragged |-> FALSE, nudge |-> <<>>,
          forces |-> NoAltitude, density |-> NoAltitude, lost |-> FALSE]
    ELSE IF s.mass = 0
      THEN NotANumber(s, distance - EARTH_RADIUS, DragApplies(s, Length(s.vx, s.vy)))
    ELSE DraggedBy(Accelerate(s, step, distance - EARTH_RADIUS,
                              Acceleration(s, s.px, s.py, distance, s.vx, s.vy)),
                   DragApplies(s, Length(s.vx, s.vy)))

Substep(s, step) ==
  IF s.nan THEN NotANumber(s, NoAltitude, FALSE)
  ELSE CheckAtStart(s, step, Length(s.px, s.py))

\* faulty variants of the loop guard: one pass too many, and a budget that
\* depends on the time still to integrate
LoopRunsInclusive(dt, substepCount) == dt > 0 /\ substepCount <= maxSubsteps

LoopRunsByLeftover(dt, substepCount) ==
  dt > 0 /\ substepCount < (IF dt > maxSubsteps * maxStep THEN maxSubsteps - 1
                                                          ELSE maxSubsteps)

\* the loop guard: dt > 0 && substepCount < maxSubsteps
LoopRuns(dt, substepCount) == dt > 0 /\ substepCount < maxSubsteps

\* The while loop.  r carries the satellite and what the loop did:
\*   substeps  passes started           advanced  ms of completed passes
\*   longest   longest step used        seen      lowest altitude checked
\*   ended     lowest altitude at the end of a completed pass (after the
\*             height adjustment)
\*   dragged   a drag force was applied in some pass
\*   nudges    the height adjustment records of the passes, in order
\*   forces, density  lowest altitude of a gravity, density evaluation
\*   lost      gravity was computed at a position that is NaN

\* r after one more pass with time step `step` that gave `one`
Account(r, step, one) ==
  [sat |-> one.sat, crash |-> one.crash,
   substeps |-> r.substeps + 1,
   advanced |-> IF one.crash = "no" THEN r.advanced + step ELSE r.advanced,
   longest |-> Max(r.longest, step),
   seen |-> Min(r.seen, one.seen),
   ended |-> IF one.crash = "no" THEN Min(r.ended, one.ended) ELSE r.ended,
   dragged |-> r.dragged \/ one.dragged,
   nudges |-> r.nudges \o one.nudge,
   forces |-> Min(r.forces, one.forces), density |-> Min(r.density, one.density),
   lost |-> r.lost \/ one.lost]

\* a crash leaves the loop (break)
RECURSIVE Substeps(_, _)
Substeps(r, dt) ==
  IF r.crash # "no" \/ ~LoopRuns(dt, r.substeps) THEN r
  ELSE Substeps(Account(r, Min(maxStep, dt), Substep(r.sat, Min(maxStep, dt))),
                dt - Min(maxStep, dt))

\* lines 129-306 for a satellite that is not crashed
Integrate(s, dt) ==
  Substeps([sat |-> AutoDisableAir(s), crash |-> "no", substeps |-> 0, advanced |-> 0,
            longest |-> 0, seen |-> NoAltitude, ended |-> NoAltitude,
            dragged |-> FALSE, nudges |-> <<>>,
            forces |-> NoAltitude, density |-> NoAltitude, lost |-> FALSE], dt)

(***************************************************************************)
(* Math.atan2 in millidegrees, for the direction test of the live update.  *)
(***************************************************************************)
\* 1e6 * b / a for 0 <= b <= a, a > 0 (long division, two digits at a time)
Ratio6(b, a) ==
  LET q1 == (b * 100) \div a
      r1 == (b * 100) % a
      q2 == (r1 * 100) \div a
      r2 == (r1 * 100) % a
  IN  (q1 * 10000) + (q2 * 100) + ((r2 * 100) \div a)

\* atan(b/a) in millidegrees, 0 <= b <= a:
\* t * (45 - (t - 1) * (14.02 + 3.80 * t)) degrees, within 0.1 degree
AtanMilliDeg(b, a) ==
  LET t == Ratio6(b, a)
  IN  MulE6(45000 + MulE6(14020 + MulE6(3800, t), 1000000 - t), t)

\* the angle of (ax, ay), ax, ay >= 0, in [0, 90000]
AtanFirstQuadrant(ay, ax) ==
  IF ax = 0 /\ ay = 0 THEN 0
  ELSE IF ay <= ax THEN AtanMilliDeg(ay, ax)
  ELSE 90000 - AtanMilliDeg(ax, ay)

\* the angle `first` of (|x|, |y|) carried to the quadrant of (x, y)
AtanQuadrant(y, x, first) ==
  IF y >= 0 THEN (IF x >= 0 THEN first ELSE 180000 - first)
  ELSE -(IF x >= 0 THEN first ELSE 180000 - first)

\* Math.atan2(y, x) * 180 / Math.PI in millidegrees, in (-180000, 180000]
Atan2MilliDeg(y, x) == AtanQuadrant(y, x, AtanFirstQuadrant(Abs(y), Abs(x)))

(***************************************************************************)
(* Math.cos and Math.sin of an angle in millidegrees, 1e6 = 1.0.           *)
(***************************************************************************)
\* millidegrees to microradians, 0 <= m <= 45000
MicroRad(m) == (m * 17453) \div 1000

\* Taylor series on [0, pi/4], x in microradians, x2 = x^2
SinTerms(x, x2) == x - (MulE6(x2, x) \div 6) + (MulE6(MulE6(x2, x), x2) \div 120)

SinSeries(x) == SinTerms(x, MulE6(x, x))

CosTerms(x2, x4) == 1000000 - (x2 \div 2) + (x4 \div 24) - (MulE6(x4, x2) \div 720)

CosSeries(x) == CosTerms(MulE6(x, x), MulE6(MulE6(x, x), MulE6(x, x)))

\* sine of m millidegrees, 0 <= m <= 90000
SinQuadrant(m) ==
  IF m <= 45000 THEN SinSeries(MicroRad(m)) ELSE CosSeries(MicroRad(90000 - m))

\* sine of a millidegrees, 0 <= a < 360000
SinTurn(a) ==
  IF a <= 180000 THEN SinQuadrant(IF a <= 90000 THEN a ELSE 180000 - a)
  ELSE -SinQuadrant(IF a <= 270000 THEN a - 180000 ELSE 360000 - a)

SinMilliDeg(m) == SinTurn(((m % 360000) + 360000) % 360000)

CosMilliDeg(m) == SinMilliDeg(m + 90000)

\* c * e / 1e6 for e of either sign
MulSignedE6(c, e) == Sign(e) * MulE6(c, Abs(e))

\* (mag * Math.cos(directionRad), mag * Math.sin(directionRad))
Polar(mag, direction) ==
  <<MulSignedE6(mag, CosMilliDeg(direction)), MulSignedE6(mag, SinMilliDeg(direction))>>

(***************************************************************************)
(* a * c / len, truncated toward zero, for 0 <= a and |c| <= len < 2^24:   *)
(* the component of a vector of length a along a direction                 *)
(* (Vector3.normalize followed by multiplyScalar).                         *)
(***************************************************************************)
\* <<quotient, remainder>> of a * c by len after one more bit of a, from
\* those of (a \div 2) * c
MulDivStep(h, bit, c, len) ==
  <<(2 * h[1]) + (((2 * h[2]) + (bit * c)) \div len), ((2 * h[2]) + (bit * c)) % len>>

RECURSIVE MulDivQR(_, _, _)
MulDivQR(a, c, len) ==
  IF a = 0 THEN <<0, 0>>
  ELSE MulDivStep(MulDivQR(a \div 2, c, len), a % 2, c, len)

Along(a, c, len) ==
  IF len = 0 THEN 0 ELSE Sign(c) * MulDivQR(a, Abs(c), len)[1]

(***************************************************************************)
(* Bounds of the model and the inputs it draws.                            *)
(***************************************************************************)
\* satellites ever added
MaxSats == 2
\* operations (frames and UI events) in a run
MaxSteps == 5

\* clock.getDelta() in ms
DeltaTimes == {16}

\* the values the user gives to the controls that have input listeners
InputValues ==
  [simSpeed |-> {1, 1000}, satSpeed |-> {1, 12},
   height |-> {70000, 80900, 2000000}, keepCircular |-> BOOLEAN]

Scenarios == {"crash", "orbit", "escape"}

(***************************************************************************)
(* State.                                                                  *)
(***************************************************************************)
VARIABLES
  satellites,           \* physicsEngine.satellites
  meshes,               \* sceneSetup.satellites: [id, visible]
  trails,               \* sceneSetup.trails: sequences of <<x, y>>
  trailLines,           \* sceneSetup.trailLines: the id of the satellite each
                        \* line was created for
  timeScale,            \* simulation.timeScale
  followSatelliteIndex, \* cameraController.followSatelliteIndex (0-based)
  controls,             \* the values of the sliders and checkboxes:
                        \* height in m, velocity in mm/s, direction in
                        \* millidegrees, dragCoeff in tenths, rho0 in 1e-3
  status,               \* the status element: [text, sat]
  crashEvents,          \* history: handleSatelliteCrash calls per satellite id
  last,                 \* history: the last operation, the satellites before
                        \* it and, for a tick, what the loop did per index
  nAdded,               \* satellites added so far
  nSteps,               \* operations so far
  pending,              \* the add requests whose model is still loading:
                        \* the resetAfterAdd each one read at its click
  probe                 \* a function of the program applied to a drawn input:
                        \* the input and the result

\* the state of the simulation
simulation == <<satellites, meshes, trails, trailLines, timeScale, followSatelliteIndex,
                controls, status, crashEvents, last, nAdded, nSteps, pending>>

vars == <<simulation, probe>>

\* the part of the state the handlers below read and write
Fleet == [satellites |-> satellites, meshes |-> meshes, trails |-> trails,
          trailLines |-> trailLines, status |-> status, crashEvents |-> crashEvents, controls |-> controls,
          logs |-> <<>>]

\* satellites[idx] && states[idx], idx 0-based
HasSatellite(f, idx) ==
  idx >= 0 /\ idx < Len(f.meshes) /\ idx < Len(f.satellites)

(***************************************************************************)
(* PhysicsEngine.addSatelliteState.  velocity is <<>> (not given) or       *)
(* <<vx, vy>>.  A position of length 0 and a mass of 0 are falsy and fall  *)
(* back to the defaults (position.length() || ..., mass || 1000).          *)
(***************************************************************************)
FallbackAltitude == 400000
FallbackMass == 1000

AddSatelliteState(id, px, py, velocity, mass, dragCoefficient, area, initialDensity, densityScaleHeight, airEnabled, satTimeScale) ==
  LET radius == IF Length(px, py) = 0 THEN EARTH_RADIUS + FallbackAltitude
                ELSE Length(px, py)
      circularVelocity == CircularVelocity(radius)
  IN  [id |-> id, px |-> px, py |-> py,
       vx |-> IF velocity = <<>> THEN 0 ELSE velocity[1],
       vy |-> IF velocity = <<>> THEN circularVelocity ELSE velocity[2],
       mass |-> IF mass = 0 THEN FallbackMass ELSE mass,
       dragCoefficient |-> dragCoefficient, area |-> area,
       initialDensity |-> initialDensity, densityScaleHeight |-> densityScaleHeight,
       airEnabled |-> airEnabled, timeScale |-> satTimeScale,
       targetHeight |-> <<>>, crashed |-> FALSE, nan |-> FALSE]

\* a faulty variant of handleSatelliteCrash: it marks every satellite
HandleCrashOfAll(f, i) ==
  [f EXCEPT !.status = [text |-> "Crashed!", sat |-> i],
            !.meshes[i].visible = FALSE,
            !.trails[i] = <<>>,
            !.satellites = [k \in 1..Len(f.satellites) |->
                              [f.satellites[k] EXCEPT !.crashed = TRUE]],
            !.crashEvents[f.satellites[i].id] = @ + 1]

(***************************************************************************)
(* PhysicsEngine.handleSatelliteCrash(satelliteIndex), index 1-based here. *)
(***************************************************************************)
HandleSatelliteCrash(f, i) ==
  [f EXCEPT !.status = [text |-> "Crashed!", sat |-> i],
            !.meshes[i].visible = FALSE,
            !.trails[i] = <<>>,
            !.satellites[i].crashed = TRUE,
            !.crashEvents[f.satellites[i].id] = @ + 1]

maxTrailLength == 1000
trailSpacing == 1000

\* a trail update that never drops the oldest point
UpdateTrailKeepingAll(trail, s) ==
  IF Len(trail) = 0 THEN <<IF s.nan THEN <<>> ELSE <<s.px, s.py>>>>
  ELSE IF s.nan \/ trail[Len(trail)] = <<>> THEN trail
  ELSE IF Length(s.px - trail[Len(trail)][1], s.py - trail[Len(trail)][2]) > trailSpacing
    THEN Append(trail, <<s.px, s.py>>)
    ELSE trail

\* the decimated trail update after the loop
\* a trail point is <<x, y>>, or <<>> for a position that is NaN; the
\* distance to or from a NaN is NaN and not > 1000
UpdateTrail(trail, s) ==
  LET tail == trail[Len(trail)]
      pushed == Append(trail, <<s.px, s.py>>)
  IN  IF Len(trail) = 0 THEN <<IF s.nan THEN <<>> ELSE <<s.px, s.py>>>>
      ELSE IF s.nan \/ tail = <<>> THEN trail
      ELSE IF Length(s.px - tail[1], s.py - tail[2]) > trailSpacing
        THEN (IF Len(pushed) > maxTrailLength THEN Tail(pushed) ELSE pushed)
        ELSE trail

\* the status text of the followed satellite
Classify(s) ==
  LET escapeVelocity == EscapeVelocity(Length(s.px, s.py))
      currentSpeed == Length(s.vx, s.vy)
  IN  IF s.nan THEN "Orbiting"
      ELSE IF currentSpeed * 10 > escapeVelocity * 11 THEN "Escaping!"
      ELSE IF currentSpeed * 10 > escapeVelocity * 9 THEN "Near escape velocity"
      ELSE "Orbiting"

\* what the tick records for index i
TickLog(dt, skipped, r) ==
  [dt |-> dt, skipped |-> skipped, crash |-> r.crash, substeps |-> r.substeps,
   advanced |-> r.advanced, longest |-> r.longest, seen |-> r.seen, ended |-> r.ended,
   dragged |-> r.dragged, nudges |-> r.nudges,
   forces |-> r.forces, density |-> r.density, lost |-> r.lost]

Idle == [crash |-> "no", substeps |-> 0, advanced |-> 0, longest |-> 0,
         seen |-> NoAltitude, ended |-> NoAltitude, dragged |-> FALSE, nudges |-> <<>>,
         forces |-> NoAltitude, density |-> NoAltitude, lost |-> FALSE]

\* a faulty variant of the skip: no satellite is skipped
NeverSkipped(s) == FALSE

\* is the satellite skipped by the tick?
SkipCrashed(s) == s.crashed

(***************************************************************************)
(* One pass of the for loop of updatePhysics after dt is computed:         *)
(* satellite i (1-based), followed index `followed` (0-based).             *)
(***************************************************************************)
\* the satellite the loop left, and the crash handler if the loop broke
AfterLoop(f, i, r) ==
  IF r.crash # "no" THEN HandleSatelliteCrash([f EXCEPT !.satellites[i] = r.sat], i)
  ELSE [f EXCEPT !.satellites[i] = r.sat]

\* the trail update after the loop
Trailed(f, i) == [f EXCEPT !.trails[i] = UpdateTrail(@, f.satellites[i])]

\* a status update that also switches the followed satellite's air
\* resistance off
ShownSwitchingAirOff(f, i, followed) ==
  IF i - 1 = followed
    THEN [f EXCEPT !.status = [text |-> Classify(f.satellites[i]), sat |-> 0],
                   !.satellites[i].airEnabled = FALSE]
    ELSE f

\* the status update for the followed satellite
Shown(f, i, followed) ==
  IF i - 1 = followed
    THEN [f EXCEPT !.status = [text |-> Classify(f.satellites[i]), sat |-> 0]]
    ELSE f

Logged(f, entry) == [f EXCEPT !.logs = Append(@, entry)]

\* the pass for a satellite that is not skipped; r is what the loop did
UpdateLive(f, i, dt, followed, r) ==
  Logged(Shown(Trailed(AfterLoop(f, i, r), i), i, followed), TickLog(dt, FALSE, r))

UpdateSatellite(f, i, dt, followed) ==
  IF SkipCrashed(f.satellites[i])
    THEN Logged(f, TickLog(dt, TRUE, Idle))
    ELSE UpdateLive(f, i, dt, followed, Integrate(f.satellites[i], dt))

\* the for loop over the indices in `order`; dts[i] is the dt of index i
RECURSIVE UpdateAll(_, _, _, _)
UpdateAll(f, order, dts, followed) ==
  IF order = <<>> THEN f
  ELSE UpdateAll(UpdateSatellite(f, Head(order), dts[Head(order)], followed),
                 Tail(order), dts, followed)

Indices(n) == [i \in 1..n |-> i]

\* the dt of every index, lines 84-99
EffectiveDts(sats, deltaTime, simTimeScale) ==
  [i \in 1..Len(sats) |-> EffectiveDt(deltaTime, simTimeScale, sats[i].timeScale)]

\* PhysicsEngine.updatePhysics(deltaTime)
UpdatePhysics(f, deltaTime, simTimeScale, followed) ==
  UpdateAll(f, Indices(Len(f.satellites)),
            EffectiveDts(f.satellites, deltaTime, simTimeScale), followed)

(***************************************************************************)
(* SatelliteSimulation.resetSatellite: hard reset of satellite idx         *)
(* (0-based) from the controls.                                            *)
(***************************************************************************)
ResetTo(f, idx, r, velocity) ==
  [f EXCEPT !.satellites[idx + 1] =
               [@ EXCEPT !.px = r, !.py = 0,
                         !.vx = velocity[1],
                         !.vy = velocity[2],
                         !.mass = f.controls.mass,
                         !.crashed = FALSE,
                         !.nan = FALSE],
            !.meshes[idx + 1].visible = TRUE,
            !.trails[idx + 1] = <<>>,
            !.status = [text |-> "Orbiting", sat |-> 0]]

ResetSatellite(f, idx) ==
  IF ~HasSatellite(f, idx) THEN f
  ELSE ResetTo(f, idx, EARTH_RADIUS + f.controls.height,
               Polar(IF f.controls.keepCircular
                       THEN CircularVelocity(EARTH_RADIUS + f.controls.height)
                       ELSE f.controls.velocity,
                     f.controls.direction))

\* the tangential velocity of circular speed at the current radius r
Tangential(s, r, vCirc) == <<Along(vCirc, -s.py, r), Along(vCirc, s.px, r)>>

\* the velocity the live update writes, <<vx, vy>>
LiveVelocity(s, c) ==
  IF s.nan THEN <<s.vx, s.vy>>
  ELSE IF c.keepCircular
    THEN Tangential(s, Length(s.px, s.py),
                    CircularVelocity(Max(Length(s.px, s.py), EARTH_RADIUS + 1)))
  ELSE IF Abs(c.velocity - Length(s.vx, s.vy)) > 1000
          \/ Abs(c.direction - Atan2MilliDeg(s.vy, s.vx)) > 1000
    THEN Polar(c.velocity, c.direction)
  ELSE <<s.vx, s.vy>>

\* the fields the live update writes, velocity being the new velocity
LiveFields(s, c, velocity) ==
  [s EXCEPT !.vx = velocity[1],
            !.vy = velocity[2],
            !.mass = c.mass,
            !.timeScale = c.satSpeed,
            !.airEnabled = c.airEnabled,
            !.dragCoefficient = c.dragCoeff,
            !.area = c.area,
            !.initialDensity = c.rho0,
            !.densityScaleHeight = c.scaleH]

\* faulty variants of the live update: one clears the crashed flag, one
\* moves the satellite to the height of the controls
LiveUpdateReviving(s, c) ==
  [LiveFields(s, c, LiveVelocity(s, c)) EXCEPT !.crashed = FALSE]

LiveUpdateTeleporting(s, c) ==
  [LiveFields(s, c, LiveVelocity(s, c)) EXCEPT !.px = EARTH_RADIUS + c.height, !.py = 0]

\* the satellite after the live update
LiveUpdate(s, c) == LiveFields(s, c, LiveVelocity(s, c))

(***************************************************************************)
(* SatelliteSimulation.applyCurrentSatelliteFromUI: live update of         *)
(* satellite idx (0-based) from the controls.                              *)
(***************************************************************************)
ApplyCurrentSatelliteFromUI(f, idx) ==
  IF ~HasSatellite(f, idx) THEN f
  ELSE [f EXCEPT !.satellites[idx + 1] = LiveUpdate(@, f.controls)]

(***************************************************************************)
(* handleHeightChange(newHeightKm, satelliteIndex) of main.ts; newHeight   *)
(* in metres, satelliteIndex 0-based.                                      *)
(***************************************************************************)
\* keepCircular checked: the satellite moves to the new radius along its
\* direction and takes the tangential circular velocity
Teleported(state, distance, newRadius, newCircularVelocity) ==
  IF state.nan THEN state
  ELSE
  [state EXCEPT !.vx = Along(newCircularVelocity, -state.py, distance),
                !.vy = Along(newCircularVelocity, state.px, distance),
                !.px = Along(newRadius, state.px, distance),
                !.py = Along(newRadius, state.py, distance)]

HeightChanged(f, newHeight, i, newCircularVelocity) ==
  [f EXCEPT !.controls.velocity = newCircularVelocity,
            !.satellites[i] =
               IF f.controls.keepCircular
                 THEN Teleported(@, Length(@.px, @.py), EARTH_RADIUS + newHeight,
                                 newCircularVelocity)
                 ELSE [@ EXCEPT !.targetHeight = <<newHeight>>]]

HandleHeightChange(f, newHeight, satelliteIndex) ==
  IF satelliteIndex < 0 \/ satelliteIndex >= Len(f.satellites) THEN f
  ELSE HeightChanged(f, newHeight, satelliteIndex + 1,
                     CircularVelocity(EARTH_RADIUS + newHeight))

(***************************************************************************)
(* loadSelectedSatelliteIntoUI(idx) of main.ts.                            *)
(***************************************************************************)
\* the controls showing `state`, dirDeg being the direction of its velocity
Loaded(c, state, dirDeg) ==
  [c EXCEPT !.height = Max(0, Length(state.px, state.py) - EARTH_RADIUS),
            !.mass = state.mass,
            !.velocity = Length(state.vx, state.vy),
            !.direction = IF dirDeg < 0 THEN dirDeg + 360000 ELSE dirDeg,
            !.dragCoeff = state.dragCoefficient,
            !.area = state.area,
            !.rho0 = state.initialDensity,
            !.scaleH = state.densityScaleHeight,
            !.satSpeed = state.timeScale,
            !.airEnabled = state.airEnabled,
            !.keepCircular = TRUE]

LoadSelectedSatelliteIntoUI(f, idx) ==
  IF idx < 0 \/ idx >= Len(f.satellites) THEN f
  ELSE [f EXCEPT !.controls =
          Loaded(@, f.satellites[idx + 1],
                 Atan2MilliDeg(f.satellites[idx + 1].vy, f.satellites[idx + 1].vx))]

(***************************************************************************)
(* ControlsManager.setScenario, then resetSatellite of satellite idx.      *)
(***************************************************************************)
CrashScenarioHeight == 50000
CrashScenarioVelocity == 200000
MinOrbitHeight == 200000

ScenarioControls(c, scenario) ==
  LET r == EARTH_RADIUS + c.height
      safeHeight == Max(MinOrbitHeight, c.height)
      escapeVelocity == EscapeVelocity(r)
  IN  IF scenario = "crash"
        THEN [c EXCEPT !.height = CrashScenarioHeight,
                       !.velocity = CrashScenarioVelocity,
                       !.direction = 270000,
                       !.keepCircular = FALSE]
      ELSE IF scenario = "orbit"
        THEN [c EXCEPT !.height = safeHeight,
                       !.velocity = CircularVelocity(EARTH_RADIUS + safeHeight),
                       !.direction = 90000,
                       !.keepCircular = TRUE]
      ELSE [c EXCEPT !.velocity = ((((escapeVelocity \div 1000) * 105) + 50) \div 100) * 1000,
                     !.direction = 90000,
                     !.keepCircular = FALSE]

SetScenario(f, scenario, idx) ==
  ResetSatellite([f EXCEPT !.controls = ScenarioControls(@, scenario)], idx)

\* the defaults of the add handler, written to the controls when
\* resetAfterAdd is checked
DefaultHeight == 2000000
DefaultMass == 1000
DefaultDragCoefficient == 22
DefaultArea == 4
DefaultRho0 == 1225
DefaultScaleH == 8500
DefaultTimeScale == 1

DefaultControls(c) ==
  [c EXCEPT !.height = DefaultHeight,
            !.mass = DefaultMass,
            !.velocity = CircularVelocity(EARTH_RADIUS + DefaultHeight),
            !.direction = 90000,
            !.dragCoeff = DefaultDragCoefficient,
            !.area = DefaultArea,
            !.rho0 = DefaultRho0,
            !.scaleH = DefaultScaleH,
            !.satSpeed = DefaultTimeScale,
            !.airEnabled = TRUE,
            !.keepCircular = TRUE]

\* a removal that takes the last element when the list has no element i
SpliceClamped(seq, i) ==
  IF seq = <<>> THEN seq
  ELSE [k \in 1..(Len(seq) - 1) |-> IF k < i THEN seq[k] ELSE seq[k + 1]]

\* if (list[i]) list.splice(i, 1), i 1-based here: the removal of element
\* i, and nothing where the list has no element i
Splice(seq, i) ==
  IF i < 1 \/ i > Len(seq) THEN seq
  ELSE [k \in 1..(Len(seq) - 1) |-> IF k < i THEN seq[k] ELSE seq[k + 1]]

(***************************************************************************)
(* The state after construction and the deferred UI synchronisation of     *)
(* main.ts: no satellites, the height and velocity controls at the         *)
(* default orbit, keepCircular checked.                                    *)
(***************************************************************************)
NoOp == [op |-> "init", idx |-> -1, deltaTime |-> 0, prev |-> <<>>, logs |-> <<>>,
         applyFrom |-> <<>>, applyTo |-> <<>>, before |-> <<>>, field |-> ""]

\* no function applied
NoProbe == [fn |-> "none"]

\* history: the scene lists before an operation
Before == [meshes |-> meshes, trails |-> trails, trailLines |-> trailLines,
           followed |-> followSatelliteIndex]

Init ==
  /\ satellites = <<>>
  /\ meshes = <<>>
  /\ trails = <<>>
  /\ trailLines = <<>>
  /\ timeScale = 1
  /\ followSatelliteIndex = 0
  /\ controls = [simSpeed |-> 1, satSpeed |-> DefaultTimeScale,
                 height |-> DefaultHeight,
                 velocity |-> CircularVelocity(EARTH_RADIUS + DefaultHeight),
                 direction |-> 90000, mass |-> DefaultMass,
                 dragCoeff |-> DefaultDragCoefficient, area |-> DefaultArea,
                 rho0 |-> DefaultRho0, scaleH |-> DefaultScaleH,
                 airEnabled |-> TRUE, keepCircular |-> TRUE]
  /\ status = [text |-> "", sat |-> 0]
  /\ crashEvents = [id \in 1..MaxSats |-> 0]
  /\ last = NoOp
  /\ nAdded = 0
  /\ nSteps = 0
  /\ pending = <<>>
  /\ probe = NoProbe

\* writes the fleet f back to the variables
Store(f) ==
  /\ satellites' = f.satellites
  /\ meshes' = f.meshes
  /\ trails' = f.trails
  /\ trailLines' = f.trailLines
  /\ UNCHANGED probe
  /\ status' = f.status
  /\ crashEvents' = f.crashEvents
  /\ controls' = f.controls

(***************************************************************************)
(* animate(): one frame with the simulation running.  With no satellites   *)
(* the loop body never runs and the frame changes nothing.                 *)
(***************************************************************************)
\* the fleet f after the frame
StoreTick(f, deltaTime) ==
  /\ Store(f)
  /\ last' = [NoOp EXCEPT !.op = "tick", !.deltaTime = deltaTime,
                          !.prev = satellites, !.logs = f.logs]

Tick(deltaTime) ==
  /\ nSteps < MaxSteps
  /\ satellites # <<>>
  /\ StoreTick(UpdatePhysics(Fleet, deltaTime, timeScale, followSatelliteIndex), deltaTime)
  /\ nSteps' = nSteps + 1
  /\ UNCHANGED <<timeScale, followSatelliteIndex, nAdded, pending>>

(***************************************************************************)
(* The click handler of addSatelliteBtn.                                   *)
(***************************************************************************)
\* an add that has not registered the physics state yet
AddedWithoutState(f, id, r) ==
  [f EXCEPT !.meshes = Append(@, [id |-> id, visible |-> TRUE]),
            !.trails = Append(@, <<>>),
            !.trailLines = Append(@, id)]

\* the fleet with the new satellite `id` on the default orbit of radius r
Added(f, id, r) ==
  [f EXCEPT !.satellites =
               Append(@, AddSatelliteState(id, r, 0, <<0, CircularVelocity(r)>>,
                                           DefaultMass, DefaultDragCoefficient,
                                           DefaultArea, DefaultRho0, DefaultScaleH,
                                           TRUE, DefaultTimeScale)),
            !.meshes = Append(@, [id |-> id, visible |-> TRUE]),
            !.trails = Append(@, <<>>),
            !.trailLines = Append(@, id)]

\* f is the fleet at the end of the handler
StoreAddedAs(added, f, resetAfterAdd) ==
  /\ Store(f)
  /\ followSatelliteIndex' = Len(added.meshes) - 1
  /\ last' = [NoOp EXCEPT !.op = "add", !.idx = Len(added.meshes) - 1,
                          !.prev = satellites,
                          !.applyFrom = IF resetAfterAdd THEN added.satellites ELSE <<>>,
                          !.applyTo = IF resetAfterAdd THEN f.satellites ELSE <<>>]

\* with resetAfterAdd the controls go back to the defaults and are applied
\* to the new satellite, which is the followed one by then
StoreAdded(added, resetAfterAdd) ==
  StoreAddedAs(added,
               IF resetAfterAdd
                 THEN ApplyCurrentSatelliteFromUI(
                        [added EXCEPT !.controls = DefaultControls(@)],
                        Len(added.meshes) - 1)
                 ELSE added,
               resetAfterAdd)

\* the handler from the moment the model is loaded (or has failed to load):
\* SceneSetup.addSatellite pushes to the four lists in one run, and the
\* rest of the click handler follows it before any other event is handled
AddCompleted(resetAfterAdd) ==
  /\ nSteps < MaxSteps
  /\ nAdded < MaxSats
  /\ StoreAdded(Added(Fleet, nAdded + 1, EARTH_RADIUS + DefaultHeight), resetAfterAdd)
  /\ nAdded' = nAdded + 1
  /\ nSteps' = nSteps + 1
  /\ UNCHANGED timeScale

\* a click whose model is loaded before any other event
AddSatellite(resetAfterAdd) ==
  /\ AddCompleted(resetAfterAdd)
  /\ UNCHANGED pending

\* the click: the handler reads resetAfterAdd and runs up to the await of
\* loadAsync, and changes nothing of the simulation on the way (it is the
\* end of the load that counts as the operation)
AddRequest(resetAfterAdd) ==
  /\ nSteps < MaxSteps
  /\ nAdded + Len(pending) < MaxSats
  /\ pending' = Append(pending, resetAfterAdd)
  /\ Store(Fleet)
  /\ last' = [NoOp EXCEPT !.op = "request", !.prev = satellites]
  /\ UNCHANGED <<timeScale, followSatelliteIndex, nAdded, nSteps>>

\* the model of the k-th pending request is loaded; the loads end in any order
AddLoaded(k) ==
  /\ k \in 1..Len(pending)
  /\ AddCompleted(pending[k])
  /\ pending' = Splice(pending, k)

(***************************************************************************)
(* The Delete button of list entry i (0-based).                            *)
(***************************************************************************)
\* a removal that leaves the trail lines as they are
RemovedKeepingTrailLines(f, i) ==
  [f EXCEPT !.meshes = Splice(@, i), !.trails = Splice(@, i),
            !.satellites = Splice(@, i)]

Removed(f, i) ==
  [f EXCEPT !.meshes = Splice(@, i), !.trails = Splice(@, i),
            !.trailLines = Splice(@, i), !.satellites = Splice(@, i)]

\* a delete that leaves the followed index as it is
FollowedAfterDeleteUnclamped(count) == followSatelliteIndex

\* the followed index once `count` satellites are left
FollowedAfterDelete(count) ==
  IF count = 0 THEN 0
  ELSE IF followSatelliteIndex >= count THEN count - 1
  ELSE followSatelliteIndex

StoreRemoved(removed, idx) ==
  /\ Store(IF removed.meshes # <<>> THEN LoadSelectedSatelliteIntoUI(removed, idx)
           ELSE removed)
  /\ followSatelliteIndex' = idx

DeleteSatellite(i) ==
  /\ nSteps < MaxSteps
  /\ i >= 0 /\ i < Len(meshes)
  /\ StoreRemoved(Removed(Fleet, i + 1), FollowedAfterDelete(Len(meshes) - 1))
  /\ last' = [NoOp EXCEPT !.op = "delete", !.idx = i, !.prev = satellites,
                          !.before = Before]
  /\ nSteps' = nSteps + 1
  /\ UNCHANGED <<timeScale, nAdded, pending>>

(***************************************************************************)
(* The change handler of followSelect.                                     *)
(***************************************************************************)
FollowSelect(idx) ==
  /\ nSteps < MaxSteps
  /\ idx >= 0 /\ idx < Len(meshes)
  /\ idx # followSatelliteIndex
  /\ Store(LoadSelectedSatelliteIntoUI(Fleet, idx))
  /\ followSatelliteIndex' = idx
  /\ last' = [NoOp EXCEPT !.op = "follow", !.idx = idx, !.prev = satellites]
  /\ nSteps' = nSteps + 1
  /\ UNCHANGED <<timeScale, nAdded, pending>>

(***************************************************************************)
(* An input event on the control `field`, which now holds `value`:         *)
(* ControlsManager.updateSimulation and, for the height control, the       *)
(* height listener of main.ts after it.                                    *)
(***************************************************************************)
\* `applied` is the fleet after updateSimulation
StoreInput(applied, field, value) ==
  /\ Store(IF field = "height"
             THEN HandleHeightChange(applied, value, followSatelliteIndex)
             ELSE applied)
  /\ timeScale' = applied.controls.simSpeed
  /\ last' = [NoOp EXCEPT !.op = "input", !.idx = followSatelliteIndex,
                          !.prev = satellites,
                          !.applyFrom = satellites,
                          !.applyTo = applied.satellites,
                          !.before = Before,
                          !.field = field]

ControlInput(field, value) ==
  /\ nSteps < MaxSteps
  /\ controls[field] # value
  /\ StoreInput(ApplyCurrentSatelliteFromUI([Fleet EXCEPT !.controls[field] = value],
                                            followSatelliteIndex),
                field, value)
  /\ nSteps' = nSteps + 1
  /\ UNCHANGED <<followSatelliteIndex, nAdded, pending>>

(***************************************************************************)
(* The reset button.                                                       *)
(***************************************************************************)
Reset ==
  /\ nSteps < MaxSteps
  /\ Store(ResetSatellite(Fleet, followSatelliteIndex))
  /\ last' = [NoOp EXCEPT !.op = "reset", !.idx = followSatelliteIndex,
                          !.prev = satellites, !.before = Before]
  /\ nSteps' = nSteps + 1
  /\ UNCHANGED <<timeScale, followSatelliteIndex, nAdded, pending>>

(***************************************************************************)
(* A scenario button.                                                      *)
(***************************************************************************)
Scenario(scenario) ==
  /\ nSteps < MaxSteps
  /\ Store(SetScenario(Fleet, scenario, followSatelliteIndex))
  /\ last' = [NoOp EXCEPT !.op = "scenario", !.idx = followSatelliteIndex,
                          !.prev = satellites, !.before = Before]
  /\ nSteps' = nSteps + 1
  /\ UNCHANGED <<timeScale, followSatelliteIndex, nAdded, pending>>

Next ==
  \/ \E deltaTime \in DeltaTimes : Tick(deltaTime)
  \/ \E resetAfterAdd \in BOOLEAN : AddSatellite(resetAfterAdd)
  \/ \E i \in 0..(MaxSats - 1) : DeleteSatellite(i)
  \/ \E idx \in 0..(MaxSats - 1) : FollowSelect(idx)
  \/ \E field \in DOMAIN InputValues : \E value \in InputValues[field] :
       ControlInput(field, value)
  \/ Reset
  \/ \E scenario \in Scenarios : Scenario(scenario)

Spec == Init /\ [][Next]_vars

(***************************************************************************)
(* The simulation with the mass control in use: the user also types a mass *)
(* of 0.  A satellite of mass 0 gets a position that is NaN in its next    *)
(* tick.  loadSelectedSatelliteIntoUI writes the position of a satellite   *)
(* into input elements, and what an input element makes of "NaN" is not    *)
(* the program's to say, so the two handlers that call it (delete, follow) *)
(* are left out here.                                                      *)
(***************************************************************************)
\* the values the user gives to the mass control
MassValues == {0, DefaultMass}

NextMass ==
  \/ \E deltaTime \in DeltaTimes : Tick(deltaTime)
  \/ \E resetAfterAdd \in BOOLEAN : AddSatellite(resetAfterAdd)
  \/ \E field \in DOMAIN InputValues : \E value \in InputValues[field] :
       ControlInput(field, value)
  \/ \E value \in MassValues : ControlInput("mass", value)
  \/ Reset
  \/ \E scenario \in Scenarios : Scenario(scenario)

SpecMass == Init /\ [][NextMass]_vars

(***************************************************************************)
(* The simulation with the loading of the satellite model made explicit:   *)
(* an add is a click and, after any number of frames, deletes, follow      *)
(* selections, resets, scenarios and other clicks, the end of its load.    *)
(***************************************************************************)
NextAsync ==
  \/ \E deltaTime \in DeltaTimes : Tick(deltaTime)
  \/ \E resetAfterAdd \in BOOLEAN : AddRequest(resetAfterAdd)
  \/ \E k \in 1..MaxSats : AddLoaded(k)
  \/ \E i \in 0..(MaxSats - 1) : DeleteSatellite(i)
  \/ \E idx \in 0..(MaxSats - 1) : FollowSelect(idx)
  \/ Reset
  \/ \E scenario \in Scenarios : Scenario(scenario)

SpecAsync == Init /\ [][NextAsync]_vars

(***************************************************************************)
(* The functions of the program that the claims speak of for every input,  *)
(* applied to inputs drawn from sample sets: the simulation stays as       *)
(* constructed and `probe` takes the input and the result.                 *)
(***************************************************************************)
\* the altitudes at which the density table changes layer
LayerBoundaries == {11000, 20000, 32000, 47000, 51000, 71000, 100000, 200000, 500000}

\* the sampled altitudes: the ground, each boundary and the metre below it,
\* and points inside the first and the last layer
DensityAltitudes ==
  {0, 5000, 1000000} \cup LayerBoundaries \cup {b - 1 : b \in LayerBoundaries}

\* rho of updatePhysics for h = Math.max(0, distance - EARTH_RADIUS), at two
\* altitudes lo <= hi
DensityAt(lo, hi) ==
  /\ lo <= hi
  /\ probe' = [fn |-> "density", lo |-> lo, hi |-> hi,
               rhoLo |-> Density(Max(0, lo)), rhoHi |-> Density(Max(0, hi))]
  /\ UNCHANGED simulation

\* the sampled positions: on the axes and the diagonals, at the radius of
\* the 400 km orbit
ProbeRadius == EARTH_RADIUS + FallbackAltitude
ProbeDiagonal == 4787820
ProbePositions ==
  {<<ProbeRadius, 0>>, <<0, ProbeRadius>>, <<-ProbeRadius, 0>>, <<0, -ProbeRadius>>,
   <<ProbeDiagonal, ProbeDiagonal>>, <<-ProbeDiagonal, ProbeDiagonal>>}

\* addSatelliteState({ position }) with no velocity and the default values
\* for the rest
AddWithoutVelocity(position) ==
  /\ probe' = [fn |-> "add",
               sat |-> AddSatelliteState(0, position[1], position[2], <<>>, 0,
                                         DefaultDragCoefficient, DefaultArea,
                                         DefaultRho0, DefaultScaleH, TRUE,
                                         DefaultTimeScale)]
  /\ UNCHANGED simulation

\* the trails a run of ticks leaves: n points along the 400 km orbit, one
\* every ArcStep millidegrees (2.4 km)
ArcStep == 20
ArcPoint(k) == Polar(ProbeRadius, k * ArcStep)
Arc == [k \in 1..(maxTrailLength + 1) |-> ArcPoint(k)]
TrailOf(n) == SubSeq(Arc, 1, n)

\* the sampled trail lengths: empty, short, one below the bound, full
TrailLengths == {0, 1, 2, maxTrailLength - 1, maxTrailLength}

\* the trail update of updatePhysics for a trail of n points and a
\* satellite that is one arc step past the last point (moved) or still at it
TrailUpdate(n, moved) ==
  /\ probe' = LET trail == TrailOf(n)
                  position == Arc[IF moved THEN n + 1 ELSE Max(n, 1)]
              IN  [fn |-> "trail", trail |-> trail, position |-> position,
                   out |-> UpdateTrail(trail, [px |-> position[1], py |-> position[2],
                                               nan |-> FALSE])]
  /\ UNCHANGED simulation

\* the sampled differences between targetHeight and the current height, in
\* m: around the tolerance of 100 m and the cap of 500 m, both ways
TargetErrors == {-2000, -501, -500, -499, -300, -101, -100, -50, 0,
                 50, 100, 101, 300, 499, 500, 501, 2000}

\* a satellite on the circular orbit through `position`, as the add handler
\* makes it, with the height control then set to `error` above its height
\* and keepCircular unchecked
OrbitingWithTarget(position, error) ==
  [AddSatelliteState(0, position[1], position[2],
                     Tangential([px |-> position[1], py |-> position[2]],
                                Length(position[1], position[2]),
                                CircularVelocity(Length(position[1], position[2]))),
                     DefaultMass, DefaultDragCoefficient, DefaultArea, DefaultRho0,
                     DefaultScaleH, TRUE, DefaultTimeScale)
     EXCEPT !.targetHeight = <<Length(position[1], position[2]) - EARTH_RADIUS + error>>]

\* one pass of the while loop, with a step of maxStep, for that satellite
SubstepWithTarget(position, error) ==
  /\ probe' = LET sat == OrbitingWithTarget(position, error)
              IN  [fn |-> "substep", sat |-> sat, pass |-> Substep(sat, maxStep)]
  /\ UNCHANGED simulation

NextFunctions ==
  \/ \E lo, hi \in DensityAltitudes : DensityAt(lo, hi)
  \/ \E position \in ProbePositions : AddWithoutVelocity(position)

SpecFunctions == Init /\ [][NextFunctions]_vars

\* the parts of a satellite's pass through updatePhysics, applied to
\* satellites and trails as runs longer than MaxSteps leave them
NextPasses ==
  \/ \E position \in ProbePositions : \E error \in TargetErrors :
       SubstepWithTarget(position, error)
  \/ \E n \in TrailLengths : \E moved \in BOOLEAN : TrailUpdate(n, moved)

SpecPasses == Init /\ [][NextPasses]_vars

(***************************************************************************)
(* Vocabulary of the properties.                                           *)
(***************************************************************************)
Altitude(s) == Length(s.px, s.py) - EARTH_RADIUS

SameMotion(a, b) == a.px = b.px /\ a.py = b.py /\ a.vx = b.vx /\ a.vy = b.vy

\* the indices the last operation ticked
Ticked == IF last.op = "tick" THEN 1..Len(last.prev) ELSE {}

\* the fleet the last tick started from, as far as the satellites go
BeforeTick == [Fleet EXCEPT !.satellites = last.prev]

\* the dt of every index in the last tick
TickDts == [i \in 1..Len(last.logs) |-> last.logs[i].dt]

\* pairs <<i, j>>: satellite i before the last operation is satellite j now
Survivors ==
  {p \in (1..Len(last.prev)) \X (1..Len(satellites)) :
     last.prev[p[1]].id = satellites[p[2]].id}

\* the index (1-based) the last live update addressed
Addressed == last.idx + 1

LiveUpdated == last.applyFrom # <<>> /\ Addressed \in 1..Len(last.applyFrom)

\* the substeps a tick ran over the whole fleet
RECURSIVE TotalSubsteps(_)
TotalSubsteps(logs) ==
  IF logs = <<>> THEN 0 ELSE Head(logs).substeps + TotalSubsteps(Tail(logs))

\* the dts of the last tick, each cut to what the substep budget covers
CutDts == [i \in 1..Len(last.logs) |-> Min(last.logs[i].dt, maxSubsteps * maxStep)]

\* one of the two auto-disable rules applies to the satellite s
Unsafe(s) ==
  \/ Length(s.vx, s.vy) * 100 > EscapeVelocity(Length(s.px, s.py)) * 95
  \/ Altitude(s) < airCutoffAltitude

\* the orders in which n indices can be visited
Orders(n) == {p \in [1..n -> 1..n] : \A a, b \in 1..n : a # b => p[a] # p[b]}

(***************************************************************************)
(* C1.  A tick leaves the position and the velocity of every satellite     *)
(* that was crashed when the tick started unchanged, whatever deltaTime    *)
(* and the two time scales are.                                            *)
(***************************************************************************)
CrashedSatelliteIsFrozen ==
  \A i \in Ticked : last.prev[i].crashed => SameMotion(satellites[i], last.prev[i])

\* a tick with positive dt passed over a crashed satellite that a height
\* change had lifted above the crash threshold
CrashedSatelliteAboveThresholdTicked ==
  \E i \in Ticked : /\ last.prev[i].crashed
                    /\ last.logs[i].dt > 0
                    /\ Altitude(last.prev[i]) > crashThreshold

(***************************************************************************)
(* C2 as stated.  No operation takes a satellite from crashed back to not  *)
(* crashed.                                                                *)
(***************************************************************************)
CrashedIsTerminal ==
  \A p \in Survivors : last.prev[p[1]].crashed => satellites[p[2]].crashed

(***************************************************************************)
(* C2 amended.  Only the hard reset (the reset button or a scenario        *)
(* button) of the followed satellite clears the crashed flag, and it       *)
(* always does; a tick, a live update, a height change, an add, a delete   *)
(* or a follow change never does.                                          *)
(***************************************************************************)
CrashedClearedOnlyByReset ==
  /\ \A p \in Survivors :
       last.prev[p[1]].crashed /\ ~satellites[p[2]].crashed
         => last.op \in {"reset", "scenario"} /\ p[2] = Addressed
  /\ last.op \in {"reset", "scenario"} /\ Addressed \in 1..Len(satellites)
       => ~satellites[Addressed].crashed

\* a control input addressed a crashed satellite, which is still crashed
CrashedSatelliteSurvivedInput ==
  /\ last.op = "input"
  /\ Addressed \in 1..Len(last.prev)
  /\ last.prev[Addressed].crashed
  /\ satellites[Addressed].crashed

(***************************************************************************)
(* C3 as stated.  A satellite that a tick integrates and whose altitude is *)
(* <= 80000 m at the start or at the end of one of its substeps is crashed *)
(* after the tick, and a tick never fires the crash transition for a       *)
(* satellite that was already crashed.                                     *)
(***************************************************************************)
CrashAtThresholdExactlyOnce ==
  /\ \A i \in Ticked :
       /\ ~last.logs[i].skipped
       /\ \/ last.logs[i].seen <= crashThreshold
          \/ last.logs[i].ended <= crashThreshold
       => satellites[i].crashed
  /\ \A i \in Ticked : last.prev[i].crashed => last.logs[i].crash = "no"

(***************************************************************************)
(* C4 as stated.  In every tick the dt of every satellite is               *)
(* deltaTime * min(global time scale, 20) * min(satellite time scale, 10). *)
(***************************************************************************)
EffectiveDtClampsBoth ==
  \A i \in Ticked :
    last.logs[i].dt = last.deltaTime * Min(timeScale, maxSafeTimeScale)
                        * Min(last.prev[i].timeScale, maxSatelliteTimeScale)

(***************************************************************************)
(* C5.  In a tick every satellite runs at most 50 substeps of at most      *)
(* 10 ms each and advances by at most 500 ms, and the tick runs at most    *)
(* 50 substeps per satellite of the fleet in total.                        *)
(***************************************************************************)
SubstepBudgetHolds ==
  /\ \A i \in Ticked :
       /\ last.logs[i].substeps <= maxSubsteps
       /\ last.logs[i].longest <= maxStep
       /\ last.logs[i].advanced <= maxSubsteps * maxStep
  /\ last.op = "tick" => TotalSubsteps(last.logs) <= maxSubsteps * Len(last.prev)

\* a tick whose dt was more than the budget covers used the whole budget
SubstepBudgetExhausted ==
  \E i \in Ticked : /\ last.logs[i].dt > maxSubsteps * maxStep
                    /\ last.logs[i].substeps = maxSubsteps
                    /\ last.logs[i].advanced = maxSubsteps * maxStep

(***************************************************************************)
(* C6.  The satellites after a tick are the satellites the same tick       *)
(* leaves with every dt cut to 500 ms: the time beyond the substep budget  *)
(* has no effect on the state, so nothing of it reaches a later tick.      *)
(***************************************************************************)
LeftoverTimeIsDropped ==
  (\E i \in Ticked : last.logs[i].dt > maxSubsteps * maxStep)
    => satellites = UpdateAll(BeforeTick, Indices(Len(last.prev)), CutDts,
                              followSatelliteIndex).satellites

\* a tick with dt beyond the budget moved a satellite that stays in orbit
LongTickMovedSatellite ==
  \E i \in Ticked : /\ last.logs[i].dt > maxSubsteps * maxStep
                    /\ ~last.logs[i].skipped
                    /\ last.logs[i].crash = "no"
                    /\ ~SameMotion(satellites[i], last.prev[i])

(***************************************************************************)
(* C7.  The satellites after a tick are the satellites the tick leaves     *)
(* when it visits the indices in any other order.                          *)
(***************************************************************************)
TickIsOrderIndependent ==
  \A order \in (IF last.op = "tick" THEN Orders(Len(last.prev)) ELSE {}) :
    order # Indices(Len(last.prev))
      => satellites = UpdateAll(BeforeTick, order, TickDts,
                                followSatelliteIndex).satellites

\* a tick crashed one satellite and moved another
TickCrashedOneMovedAnother ==
  \E i, j \in Ticked : /\ i # j
                       /\ last.logs[i].crash # "no"
                       /\ ~last.logs[j].skipped
                       /\ last.logs[j].crash = "no"
                       /\ ~SameMotion(satellites[j], last.prev[j])

(***************************************************************************)
(* C8.  A tick with positive dt crashes every satellite that is not        *)
(* crashed and at an altitude <= 80000 m when the tick starts, in the      *)
(* first check of its first substep, without changing its position or      *)
(* velocity.                                                               *)
(***************************************************************************)
LowSatelliteCrashesUnmoved ==
  \A i \in Ticked :
    /\ ~last.prev[i].crashed
    /\ Altitude(last.prev[i]) <= crashThreshold
    /\ last.logs[i].dt > 0
    => /\ satellites[i].crashed
       /\ last.logs[i].crash = "start"
       /\ last.logs[i].substeps = 1
       /\ SameMotion(satellites[i], last.prev[i])

\* a tick crashed the satellite the crash scenario had put at 50 km
CrashScenarioSatelliteCrashed ==
  \E i \in Ticked : /\ ~last.prev[i].crashed
                    /\ Altitude(last.prev[i]) = CrashScenarioHeight
                    /\ last.logs[i].dt > 0
                    /\ satellites[i].crashed

(***************************************************************************)
(* C9 as stated.  A live update addressed to a crashed satellite leaves    *)
(* its velocity, mass, time scale, air-resistance flag and drag            *)
(* parameters unchanged.                                                   *)
(***************************************************************************)
LiveUpdateRejectsCrashed ==
  LiveUpdated /\ last.applyFrom[Addressed].crashed
    => last.applyTo[Addressed] = last.applyFrom[Addressed]

(***************************************************************************)
(* C10.  A live update leaves the position of the addressed satellite and  *)
(* every other satellite unchanged.                                        *)
(***************************************************************************)
LiveUpdateNeverTeleports ==
  last.applyFrom # <<>>
    => /\ Len(last.applyTo) = Len(last.applyFrom)
       /\ \A i \in 1..Len(last.applyFrom) :
            IF i = Addressed
              THEN /\ last.applyTo[i].px = last.applyFrom[i].px
                   /\ last.applyTo[i].py = last.applyFrom[i].py
              ELSE last.applyTo[i] = last.applyFrom[i]

\* a live update changed the addressed satellite of a fleet of two
LiveUpdateChangedOneOfTwo ==
  /\ LiveUpdated
  /\ Len(last.applyFrom) >= 2
  /\ last.applyTo[Addressed] # last.applyFrom[Addressed]

(***************************************************************************)
(* C11.  The density used for drag is 1.225 kg/m^3 at altitude 0, is never *)
(* negative and never grows with the altitude: for any two altitudes       *)
(* lo <= hi, the boundaries of the layers and the metre below each among   *)
(* them, the density at lo is at least the density at hi.                  *)
(***************************************************************************)
DensityIsNonIncreasing ==
  probe.fn = "density" =>
    /\ probe.rhoLo >= 0 /\ probe.rhoHi >= 0
    /\ (probe.lo = 0 => probe.rhoLo = 1225000000)
    /\ probe.rhoLo >= probe.rhoHi

\* the density was taken just below and at a layer boundary
DensityTakenAcrossBoundary ==
  /\ probe.fn = "density"
  /\ probe.hi \in LayerBoundaries
  /\ probe.lo = probe.hi - 1

(***************************************************************************)
(* C12.  If, when a tick starts, a satellite that is not crashed is faster *)
(* than 95% of the escape speed at its radius or lower than 100 000 m, no  *)
(* drag force is applied to it in any substep of that tick.                *)
(***************************************************************************)
SafetyOverrideHoldsForTick ==
  \A i \in Ticked :
    (~last.prev[i].crashed /\ Unsafe(last.prev[i])) => ~last.logs[i].dragged

\* a tick integrated, without drag, a satellite that started it above
\* 100 km with air resistance switched on and faster than 95% of the escape
\* speed
EscapingSatelliteTickedWithoutDrag ==
  \E i \in Ticked :
    /\ last.prev[i].airEnabled /\ ~last.prev[i].crashed
    /\ Altitude(last.prev[i]) >= airCutoffAltitude
    /\ Unsafe(last.prev[i])
    /\ last.logs[i].advanced > 0
    /\ ~last.logs[i].dragged

(***************************************************************************)
(* C13.  A tick writes the auto-disable to the stored flag and never sets  *)
(* the flag: a satellite to which a rule applies when the tick starts has  *)
(* airEnabled = false after it, and airEnabled goes from false to true     *)
(* only for the satellite a live update addresses, in no tick and in no    *)
(* other operation.                                                        *)
(***************************************************************************)
AirFlagIsRestoredOnlyByLiveUpdate ==
  /\ \A i \in Ticked :
        (~last.prev[i].crashed /\ Unsafe(last.prev[i])) => ~satellites[i].airEnabled
  /\ \A p \in Survivors :
        (~last.prev[p[1]].airEnabled /\ satellites[p[2]].airEnabled) =>
          (last.op # "tick" /\ LiveUpdated /\ p[1] = Addressed)

\* a tick integrated a satellite that is back above 100 km and below 95% of
\* the escape speed with the flag an earlier tick had cleared, and the
\* flag is still false
DisabledFlagSurvivedSafeTick ==
  \E i \in Ticked :
    /\ ~last.prev[i].airEnabled /\ ~last.prev[i].crashed
    /\ ~Unsafe(last.prev[i])
    /\ last.logs[i].advanced > 0
    /\ ~satellites[i].airEnabled

(***************************************************************************)
(* C14.  Every satellite of the fleet has a mass > 0 in every reachable    *)
(* state, whatever mass the user supplies.                                 *)
(***************************************************************************)
MassIsAlwaysPositive ==
  \A i \in 1..Len(satellites) : satellites[i].mass > 0

\* a live update has just written the mass control to the followed satellite
MassAppliedToSatellite ==
  /\ last.op = "input" /\ LiveUpdated
  /\ satellites[Addressed].mass = controls.mass
  /\ last.prev[Addressed].mass # controls.mass

(***************************************************************************)
(* C15.  After every tick with a positive effective dt, every satellite    *)
(* that is not crashed has a position whose magnitude is a number greater  *)
(* than the radius of the Earth.                                           *)
(***************************************************************************)
NonCrashedIsAboveSurface ==
  \A i \in Ticked :
    (last.logs[i].dt > 0 /\ ~satellites[i].crashed) =>
      (~satellites[i].nan /\ Length(satellites[i].px, satellites[i].py) > EARTH_RADIUS)

\* a tick integrated a satellite, not crashed, of mass 0
MasslessSatelliteTicked ==
  \E i \in Ticked :
    /\ last.prev[i].mass = 0 /\ ~last.prev[i].crashed
    /\ last.logs[i].substeps > 0

(***************************************************************************)
(* C16.  A satellite added with a position and no velocity gets the        *)
(* tangential circular velocity of that position: along (-y, x, 0), hence  *)
(* perpendicular to the position, with magnitude sqrt(GM / |position|).    *)
(***************************************************************************)
AddedVelocityIsTangential ==
  probe.fn = "add" =>
    LET s == probe.sat
        r == Length(s.px, s.py)
    IN  <<s.vx, s.vy>> = Tangential(s, r, CircularVelocity(r))

\* a satellite was added, with no velocity, at a position off the x axis
AddedOffTheXAxis ==
  /\ probe.fn = "add"
  /\ probe.sat.py # 0
  /\ Length(probe.sat.vx, probe.sat.vy) = CircularVelocity(Length(probe.sat.px, probe.sat.py))

(***************************************************************************)
(* C17.  Deleting entry i of n satellites leaves n - 1 satellites: those   *)
(* before i keep their index, those after i move down by one, each with an *)
(* unchanged state, and the meshes, the trails and the trail lines are     *)
(* shifted in the same way.                                                *)
(***************************************************************************)
\* the index before the deletion of what is at index j (1-based) after it
BeforeDelete(j) == IF j < Addressed THEN j ELSE j + 1

DeleteShiftsAllLists ==
  last.op = "delete" =>
    /\ Len(satellites) = Len(last.prev) - 1
    /\ Len(meshes) = Len(last.prev) - 1
    /\ Len(trails) = Len(last.prev) - 1
    /\ Len(trailLines) = Len(last.prev) - 1
    /\ \A j \in 1..Len(satellites) :
         /\ satellites[j] = last.prev[BeforeDelete(j)]
         /\ meshes[j] = last.before.meshes[BeforeDelete(j)]
         /\ trails[j] = last.before.trails[BeforeDelete(j)]
         /\ trailLines[j] = last.before.trailLines[BeforeDelete(j)]

\* the first of two satellites was deleted, and the one left, with a trail
\* already, moved from index 1 to index 0
FirstOfTwoDeleted ==
  /\ last.op = "delete" /\ last.idx = 0
  /\ Len(last.prev) = 2 /\ Len(satellites) = 1
  /\ satellites[1].id = last.prev[2].id
  /\ trails[1] # <<>>
  /\ trailLines[1] = satellites[1].id

(***************************************************************************)
(* C18.  A live update, a hard reset or a removal that addresses an index  *)
(* with no satellite is a no-op: no satellite state changes, the fleet     *)
(* keeps its length and every satellite its index.                         *)
(***************************************************************************)
\* indices (0-based) at which the fleet has no satellite
InvalidIndices == {-1, Len(satellites), Len(satellites) + 1}

\* the scene lists and the states are what they were before the operation
FleetUntouched ==
  /\ satellites = last.prev
  /\ meshes = last.before.meshes
  /\ trails = last.before.trails
  /\ trailLines = last.before.trailLines

InvalidIndexIsNoOp ==
  /\ (last.op \in {"input", "reset", "scenario"} /\ Addressed \notin 1..Len(last.prev))
       => FleetUntouched
  /\ \A idx \in InvalidIndices :
       /\ ApplyCurrentSatelliteFromUI(Fleet, idx) = Fleet
       /\ ResetSatellite(Fleet, idx) = Fleet
       /\ Removed(Fleet, idx + 1) = Fleet

\* the reset button was pressed when the last satellite had been deleted:
\* the followed index 0 addresses no satellite
ResetWithoutSatellite ==
  /\ last.op = "reset" /\ last.idx = 0
  /\ last.prev = <<>> /\ satellites = <<>>
  /\ nAdded > 0

(***************************************************************************)
(* C19.  The followed index and the status classification have no effect   *)
(* on the dynamics: a tick leaves the same satellites (position, velocity, *)
(* crashed flag, air resistance flag) whichever index is followed.         *)
(***************************************************************************)
\* the values followSatelliteIndex may have, none and out of range included
FollowChoices == (-1)..MaxSats

\* the fleet the last tick leaves when `followed` is the followed index
TickFollowing(followed) ==
  UpdatePhysics(BeforeTick, last.deltaTime, timeScale, followed)

FollowedIndexDoesNotChangeDynamics ==
  last.op = "tick" =>
    \A followed \in FollowChoices : TickFollowing(followed).satellites = satellites

\* a tick moved two satellites, and with the other one followed the status
\* text would be another
OtherFollowedShowsOtherStatus ==
  /\ last.op = "tick"
  /\ Len(satellites) = 2
  /\ \A i \in Ticked : ~SameMotion(satellites[i], last.prev[i])
  /\ \E followed \in 0..1 : /\ followed # followSatelliteIndex
                             /\ TickFollowing(followed).status.text # status.text

(***************************************************************************)
(* C21.  A trail never holds more than maxTrailLength points: the trail    *)
(* update keeps a trail within the bound, and where appending a point to a *)
(* full trail would exceed it, the oldest point is dropped.                *)
(***************************************************************************)
TrailStaysWithinBound ==
  probe.fn = "trail" =>
    /\ Len(probe.out) <= maxTrailLength
    /\ (probe.out # probe.trail) =>
         /\ probe.out[Len(probe.out)] = probe.position
         /\ IF Len(probe.trail) = maxTrailLength
              THEN probe.out = Append(Tail(probe.trail), probe.position)
              ELSE probe.out = Append(probe.trail, probe.position)

\* a point was appended to a full trail
PointAppendedToFullTrail ==
  /\ probe.fn = "trail"
  /\ Len(probe.trail) = maxTrailLength
  /\ probe.out # probe.trail
  /\ probe.out[1] = probe.trail[2]

(***************************************************************************)
(* C22.  At the end of the tick in which a satellite crashes, and after    *)
(* every later tick, the trail of that satellite is empty.                 *)
(***************************************************************************)
CrashedTrailIsEmpty ==
  \A i \in Ticked : satellites[i].crashed => trails[i] = <<>>

\* a tick crashed a satellite, for the first time
TickCrashedTrailedSatellite ==
  \E i \in Ticked : /\ last.logs[i].crash # "no"
                     /\ satellites[i].crashed
                     /\ crashEvents[satellites[i].id] = 1

(***************************************************************************)
(* C23.  The radial height adjustment of a satellite is at most 500 m in   *)
(* every substep; in a tick it is at most 500 m for every substep the tick *)
(* completes.                                                              *)
(***************************************************************************)
\* the radial distance the height adjustment `nudge` moved the satellite
Moved(nudge) == Abs(Length(nudge.to[1], nudge.to[2]) - nudge.distance)

RECURSIVE TotalMoved(_)
TotalMoved(nudges) ==
  IF nudges = <<>> THEN 0 ELSE Moved(Head(nudges)) + TotalMoved(Tail(nudges))

\* the height adjustment records of index i in the last tick
Nudges(i) == last.logs[i].nudges

\* as stated: at most 500 m in total within one tick
AdjustmentPerTickIsCapped ==
  \A i \in Ticked : TotalMoved(Nudges(i)) <= maxAdjustment

AdjustmentPerSubstepIsCapped ==
  \A i \in Ticked :
    /\ Len(Nudges(i)) <= last.logs[i].substeps
    /\ \A k \in 1..Len(Nudges(i)) : Moved(Nudges(i)[k]) <= maxAdjustment
    /\ TotalMoved(Nudges(i)) <= maxAdjustment * Len(Nudges(i))

\* a tick adjusted a satellite in more than ten substeps, by more than ten
\* times the cap of one substep
TickAdjustedByKilometres ==
  \E i \in Ticked : /\ Len(Nudges(i)) > 10
                     /\ TotalMoved(Nudges(i)) > 10 * maxAdjustment
                     /\ ~satellites[i].crashed

(***************************************************************************)
(* C24.  A completed substep of a satellite whose targetHeight is set,     *)
(* with error = targetHeight - altitude: if |error| > 100 m the position   *)
(* moves along its radial direction by sign(error) * min(|error|, 500 m),  *)
(* which does not overshoot the target, the velocity is not changed and    *)
(* the target stays; if |error| <= 100 m the target is cleared and the     *)
(* position is not adjusted.                                               *)
(***************************************************************************)
\* sign(error) * min(|error|, 500 m)
StepToward(error) == Sign(error) * Min(Abs(error), maxAdjustment)

\* targetHeight less the height after the adjustment
ErrorLeft(nudge) == nudge.error + nudge.distance - Length(nudge.to[1], nudge.to[2])

\* what the claim says of one height adjustment; lengths are whole metres,
\* so a length is within 2 m of what it is in the reals
AdjustedAsSpecified(nudge) ==
  IF Abs(nudge.error) > heightTolerance
    THEN /\ nudge.to = <<nudge.from[1] + ScaleTo(StepToward(nudge.error), nudge.from[1],
                                                 nudge.distance),
                         nudge.from[2] + ScaleTo(StepToward(nudge.error), nudge.from[2],
                                                 nudge.distance)>>
         /\ Abs(Moved(nudge) - Abs(StepToward(nudge.error))) <= 2
         /\ Abs(ErrorLeft(nudge)) <= Abs(nudge.error) - Abs(StepToward(nudge.error)) + 2
         /\ ErrorLeft(nudge) * Sign(nudge.error) >= -2
         /\ nudge.velocityKept
         /\ ~nudge.cleared
    ELSE /\ nudge.to = nudge.from
         /\ nudge.velocityKept
         /\ nudge.cleared

HeightAdjustmentIsAsSpecified ==
  probe.fn = "substep" =>
    /\ probe.pass.crash = "no"
    /\ Len(probe.pass.nudge) = 1
    /\ AdjustedAsSpecified(probe.pass.nudge[1])
    /\ probe.pass.sat.targetHeight = (IF probe.pass.nudge[1].cleared THEN <<>>
                                      ELSE probe.sat.targetHeight)

\* a substep moved a satellite that was less than 500 m below its target
\* up to the target
SubstepReachedTarget ==
  /\ probe.fn = "substep"
  /\ probe.pass.nudge # <<>>
  /\ probe.pass.nudge[1].error > heightTolerance
  /\ probe.pass.nudge[1].error < maxAdjustment
  /\ Abs(ErrorLeft(probe.pass.nudge[1])) <= 2
  /\ probe.pass.sat.py # probe.sat.py

(***************************************************************************)
(* C25.  After every tick with a positive effective dt, every satellite    *)
(* that is not crashed is at an altitude > 80000 m, also when it has a     *)
(* targetHeight during the tick.                                           *)
(***************************************************************************)
NonCrashedIsAboveCrashThreshold ==
  \A i \in Ticked :
    (last.logs[i].dt > 0 /\ ~satellites[i].crashed) =>
      Altitude(satellites[i]) > crashThreshold

\* a tick integrated a satellite whose target is below the crash threshold
\* and left it not crashed
TickNudgedTowardLowTarget ==
  \E i \in Ticked :
    /\ last.logs[i].dt > 0
    /\ Nudges(i) # <<>>
    /\ last.prev[i].targetHeight # <<>>
    /\ last.prev[i].targetHeight[1] <= crashThreshold
    /\ ~satellites[i].crashed

(***************************************************************************)
(* C26.  An input event of the simulation speed control changes the global *)
(* time scale only: the velocity, the mass, the time scale, the air        *)
(* resistance flag and the drag parameters of every satellite are what     *)
(* they were.                                                              *)
(***************************************************************************)
\* the fields of a satellite that a live update writes
SameParameters(a, b) ==
  /\ a.vx = b.vx /\ a.vy = b.vy
  /\ a.mass = b.mass
  /\ a.timeScale = b.timeScale
  /\ a.airEnabled = b.airEnabled
  /\ a.dragCoefficient = b.dragCoefficient
  /\ a.area = b.area
  /\ a.initialDensity = b.initialDensity
  /\ a.densityScaleHeight = b.densityScaleHeight

SimulationSpeedChangesTimeScaleOnly ==
  (last.op = "input" /\ last.field = "simSpeed") =>
    /\ Len(satellites) = Len(last.prev)
    /\ \A i \in 1..Len(satellites) : SameParameters(satellites[i], last.prev[i])

\* the simulation speed was changed while a satellite was followed
SimulationSpeedSetWithSatellite ==
  /\ last.op = "input" /\ last.field = "simSpeed"
  /\ LiveUpdated
  /\ timeScale = controls.simSpeed

(***************************************************************************)
(* C27.  When the followed satellite crashes in a tick, the status at the  *)
(* end of the tick is the crash status of that satellite, not a            *)
(* classification (Orbiting, Near escape velocity, Escaping).              *)
(***************************************************************************)
FollowedCrashShowsCrashStatus ==
  \A i \in Ticked :
    (last.logs[i].crash # "no" /\ i - 1 = followSatelliteIndex) =>
      status = [text |-> "Crashed!", sat |-> i]

\* the followed satellite crashed in the last tick
FollowedSatelliteCrashedInTick ==
  \E i \in Ticked : /\ i - 1 = followSatelliteIndex
                     /\ last.logs[i].crash # "no"
                     /\ ~last.prev[i].crashed
                     /\ ~meshes[i].visible

(***************************************************************************)
(* C28.  Whatever the interleaving of add requests whose model is still    *)
(* loading, deletes and frames: after every handler the mesh list, the     *)
(* trail list and the list of physics states have the same length and      *)
(* index i of each is the same satellite.  The trails carry no identity,   *)
(* so for them the second part is a property of the steps: the trail at an *)
(* index after a step is the trail the satellite of that index had before  *)
(* it, as it was, emptied, or with the satellite's new position appended.  *)
(***************************************************************************)
\* the position of satellite i after the step, as a trail point
PointAfter(i) == <<satellites'[i].px, satellites'[i].py>>

TrailStaysWithItsSatellite ==
  \A i \in 1..Len(satellites') : \A j \in 1..Len(satellites) :
    satellites'[i].id = satellites[j].id =>
      trails'[i] \in {trails[j], <<>>, Append(trails[j], PointAfter(i)), <<PointAfter(i)>>}

ListsAligned ==
  /\ Len(meshes) = Len(satellites)
  /\ Len(trails) = Len(satellites)
  /\ \A i \in 1..Len(satellites) : meshes[i].id = satellites[i].id

ListsStayAligned == [](ListsAligned) /\ [][TrailStaysWithItsSatellite]_vars

\* a frame moved a satellite while the model of another one was loading
FrameWhileLoading ==
  /\ last.op = "tick"
  /\ pending # <<>>
  /\ satellites # <<>>
  /\ trails[1] # <<>>

(***************************************************************************)
(* C29.  After any sequence of adds, deletes and follow selections the     *)
(* followed index is 0 if there is no satellite and otherwise an index of  *)
(* the fleet; a delete that leaves satellites keeps the number unless it   *)
(* is no index of the fleet any more, and then makes it the last index.    *)
(***************************************************************************)
FollowedIndexInRange ==
  /\ satellites = <<>> => followSatelliteIndex = 0
  /\ satellites # <<>> => followSatelliteIndex \in 0..(Len(satellites) - 1)
  /\ (last.op = "delete" /\ satellites # <<>>) =>
       followSatelliteIndex = IF last.before.followed >= Len(satellites)
                                THEN Len(satellites) - 1
                                ELSE last.before.followed

\* the last of two satellites was followed when one of them was deleted
DeleteClampedFollowedIndex ==
  /\ last.op = "delete"
  /\ satellites # <<>>
  /\ last.before.followed >= Len(satellites)

(***************************************************************************)
(* C30.  Gravity and drag are computed only for a satellite whose altitude *)
(* is above 80 km: no frame evaluates the gravity or the density table at  *)
(* an altitude of 80 km or less, or at one that is no number, so the       *)
(* layers of the table below 71 km are never used.                         *)
(***************************************************************************)
ForcesOnlyAboveCrashThreshold ==
  \A i \in Ticked :
    /\ ~last.logs[i].lost
    /\ last.logs[i].forces > crashThreshold
    /\ last.logs[i].density > crashThreshold

\* a frame computed the forces on a satellite whose position is NaN
ForcesComputedForLostSatellite ==
  \E i \in Ticked : last.logs[i].lost /\ last.logs[i].forces < NoAltitude

=============================================================================
